---------------------------- MODULE Spec2Model ----------------------------
(***************************************************************************)
(* A model of nanobot/agent/tools/web.py: the WebSearchTool (MCP session   *)
(* handshake, schema-driven argument building, tools/call) and the         *)
(* WebFetchTool (URL validation, retrieval, truncation).                   *)
(***************************************************************************)
EXTENDS Integers, Sequences, FiniteSets, TLC

VARIABLES
    \* the WebSearchTool instance
    init_api_key,        \* self._init_api_key
    max_results,         \* self.max_results
    session_initialized, \* self._session_initialized
    available_tools,     \* self._available_tools
    search_tool_name,    \* self._search_tool_name
    input_schema,        \* self._input_schema
    \* the process environment
    env_api_key,         \* os.environ["DASHSCOPE_API_KEY"], "" when unset
    \* the execute calls running on the instance, one per task
    pc,                  \* where the task's call is suspended
    query,               \* argument query of the call
    count,               \* argument count of the call
    log,                 \* the requests the call has sent, with their outcomes
    result,              \* the string the call returned
    ready_at_start,      \* self._session_initialized when the call began
    tools_reply,         \* result.tools of the tools/list reply the call received
    reply,               \* the tools/call reply the call received
    selected,            \* self._search_tool_name when the call's handshake ended
    ncalls,              \* execute calls the task has started so far
    \* a direct call of WebSearchTool._build_arguments
    b_query,             \* argument query
    b_count,             \* argument count
    b_pc,                \* "call" before the call, "done" after it, "off" when unused
    arguments,           \* the returned dict
    \* the WebFetchTool instance and one execute call on it
    f_max_chars,         \* self.max_chars
    f_url,               \* argument url
    f_extractMode,       \* argument extractMode
    f_maxChars,          \* argument maxChars
    f_pc,                \* "idle", "get" (suspended in client.get), "done", "off" when unused
    f_requests,          \* the URLs requested with client.get
    f_response,          \* the response r that client.get returned
    f_text,              \* the extracted text before truncation
    f_result,            \* the object execute returned (json.dumps of it)
    \* calls of _strip_tags, each on the result of the one before
    strip_input,         \* the argument of the first call
    strip_out,           \* the strings returned so far
    strip_pc             \* "call" while calls are made, "done" after them, "off" when unused

toolVars == <<init_api_key, max_results, session_initialized, available_tools,
              search_tool_name, input_schema>>
taskVars == <<pc, query, count, log, result, ready_at_start, tools_reply, reply, selected,
              ncalls>>
argVars == <<b_query, b_count, b_pc, arguments>>
fetchVars == <<f_max_chars, f_url, f_extractMode, f_maxChars, f_pc, f_requests, f_response,
               f_text, f_result>>

stripVars == <<strip_input, strip_out, strip_pc>>

vars == <<toolVars, env_api_key, taskVars, argVars, fetchVars, stripVars>>

---------------------------------------------------------------------------
(* Python values.  A value is a tagged record of one shape, so that values *)
(* of different types can be stored in one dict and compared.              *)

None == [t |-> "none", s |-> "", n |-> 0]
PyStr(x) == [t |-> "str", s |-> x, n |-> 0]
PyInt(k) == [t |-> "int", s |-> "", n |-> k]

\* Python truthiness of None, a str or an int
Truthy(v) ==
    CASE v.t = "none" -> FALSE
      [] v.t = "str" -> v.s # ""
      [] v.t = "int" -> v.n # 0

\* Python `a or b`
PyOr(a, b) == IF Truthy(a) THEN a ELSE b

Range(f) == {f[i] : i \in DOMAIN f}

---------------------------------------------------------------------------
(* Strings *)

UpperCase == "ABCDEFGHIJKLMNOPQRSTUVWXYZ"
LowerCase == "abcdefghijklmnopqrstuvwxyz"

\* the lower-case letter of each upper-case letter
LowerOfUpper ==
    LET pairs == {<<SubSeq(UpperCase, i, i), SubSeq(LowerCase, i, i)>> : i \in 1..Len(UpperCase)}
    IN  [c \in {p[1] : p \in pairs} |-> (CHOOSE p \in pairs : p[1] = c)[2]]

\* str.lower() of a one-character string
LowerChar(c) == IF c \in DOMAIN LowerOfUpper THEN LowerOfUpper[c] ELSE c

\* str.lower()
RECURSIVE Lower(_)
Lower(s) ==
    IF Len(s) = 0 THEN ""
    ELSE LowerChar(SubSeq(s, 1, 1)) \o Lower(SubSeq(s, 2, Len(s)))

\* Python `k in s` for strings
Contains(s, k) ==
    \E i \in 1..(Len(s) - Len(k) + 1) : SubSeq(s, i, i + Len(k) - 1) = k

\* Python s.startswith(k)
StartsWith(s, k) == Len(k) <= Len(s) /\ SubSeq(s, 1, Len(k)) = k

---------------------------------------------------------------------------
(* Dicts with string keys (the arguments object) *)

Tasks == {"t1", "t2"}

EmptyDict == [k \in {} |-> None]

\* d[k] = v
DictSet(d, k, v) == [x \in (DOMAIN d) \cup {k} |-> IF x = k THEN v ELSE d[x]]

\* Dicts that keep insertion order, with Python values as keys
EmptyODict == [keys |-> <<>>, val |-> [k \in {} |-> None]]

\* d[k] = v: a new key goes last, a known key keeps its place
ODictSet_Appends(d, k, v) ==
    [keys |-> Append(d.keys, k),
     val |-> [x \in (DOMAIN d.val) \cup {k} |-> IF x = k THEN v ELSE d.val[x]]]
ODictSet(d, k, v) ==
    [keys |-> IF k \in Range(d.keys) THEN d.keys ELSE Append(d.keys, k),
     val |-> [x \in (DOMAIN d.val) \cup {k} |-> IF x = k THEN v ELSE d.val[x]]]

\* the first of the indices hits of a sequence, 0 when there is none: where
\* a loop over the sequence that breaks at the first hit stops
FirstIndex(hits) ==
    IF hits # {} THEN CHOOSE i \in hits : \A j \in hits : i <= j ELSE 0

---------------------------------------------------------------------------
(* WebSearchTool._build_arguments                                           *)
(* A schema is [properties |-> <<key, ...>>, required |-> <<name, ...>>]:   *)
(* the keys of "properties" in declared order (a dict: no key twice), and   *)
(* the "required" list.  A schema without "properties" or "required" has   *)
(* the empty sequence there (.get(..., {}) and .get(..., [])).             *)

EmptySchema == [properties |-> <<>>, required |-> <<>>]

\* param_name.lower() == "query" or "query" in param_name.lower()
IsQueryName(name) ==
    LET lower == Lower(name) IN lower = "query" \/ Contains(lower, "query")

CountKeywords == {"count", "num", "limit", "size"}

\* any(keyword in param_lower for keyword in ["count", "num", "limit", "size"])
IsCountName(name) ==
    LET param_lower == Lower(name) IN \E kw \in CountKeywords : Contains(param_lower, kw)

\* min(max(count or self.max_results, 1), 10)
Max2(a, b) == IF a >= b THEN a ELSE b
Min2(a, b) == IF a <= b THEN a ELSE b
CountArgValue(c, maxres) == Min2(Max2(PyOr(c, PyInt(maxres)).n, 1), 10)

\* lines 176-195: the query parameter
MapQuery_NoDefault(schema, q) ==
    LET ip == FirstIndex({i \in DOMAIN schema.properties : IsQueryName(schema.properties[i])})
        ir == FirstIndex({i \in DOMAIN schema.required : IsQueryName(schema.required[i])})
    IN  IF ip # 0 THEN DictSet(EmptyDict, schema.properties[ip], PyStr(q))
        ELSE IF ir # 0 THEN DictSet(EmptyDict, schema.required[ir], PyStr(q))
        ELSE EmptyDict

MapQuery(schema, q) ==
    LET ip == FirstIndex({i \in DOMAIN schema.properties : IsQueryName(schema.properties[i])})
        ir == FirstIndex({i \in DOMAIN schema.required : IsQueryName(schema.required[i])})
    IN  IF ip # 0 THEN DictSet(EmptyDict, schema.properties[ip], PyStr(q))
        ELSE IF ir # 0 THEN DictSet(EmptyDict, schema.required[ir], PyStr(q))
        ELSE DictSet(EmptyDict, "query", PyStr(q))

\* lines 197-218: the count parameter, stored into the same dict
MapCount(args, schema, c, maxres) ==
    LET ip == FirstIndex({i \in DOMAIN schema.properties : IsCountName(schema.properties[i])})
        ir == FirstIndex({i \in DOMAIN schema.required : IsCountName(schema.required[i])})
    IN  IF ip # 0
        THEN DictSet(args, schema.properties[ip], PyInt(CountArgValue(c, maxres)))
        ELSE IF ir # 0
        THEN DictSet(args, schema.required[ir], PyInt(CountArgValue(c, maxres)))
        ELSE args

BuildArguments(schema, q, c, maxres) ==
    MapCount(MapQuery(schema, q), schema, c, maxres)

---------------------------------------------------------------------------
(* Inputs of _build_arguments *)

MaxProps == 2
MaxRequired == 1

FieldNames ==
    {"Search_Query", "query_limit", "result_count", "pageSize", "unknown_field", "another_field"}

Queries == {"test query", "tla"}

\* count: int | None
Counts == {None, PyInt(-3), PyInt(0), PyInt(1), PyInt(3), PyInt(10), PyInt(11)}

MaxResultsValues == {10, 4, 0}

SeqsUpTo(S, n) == UNION {[1..k -> S] : k \in 0..n}

NoRepeat(seq) == \A i, j \in 1..Len(seq) : seq[i] = seq[j] => i = j

Schemas ==
    {[properties |-> p, required |-> r] :
        p \in {q \in SeqsUpTo(FieldNames, MaxProps) : NoRepeat(q)},
        r \in SeqsUpTo(FieldNames, MaxRequired)}

\* no response of client.get yet
NoResponse == [status |-> 0, finalUrl |-> "", ctype |-> "", body |-> ""]

\* the variables of _strip_tags when it is not called on its own
StripOff ==
    /\ strip_input = ""
    /\ strip_out = <<>>
    /\ strip_pc = "off"

\* the fetch variables when no WebFetchTool is used
FetchOff ==
    /\ f_max_chars = 0
    /\ f_url = ""
    /\ f_extractMode = ""
    /\ f_maxChars = None
    /\ f_pc = "off"
    /\ f_requests = <<>>
    /\ f_response = NoResponse
    /\ f_text = ""
    /\ f_result = [error |-> "", url |-> ""]

\* A reply to tools/call: fault names what is wrong with its shape ("" when
\* nothing is), content is result.content, <<>> when the reply has no result
\* or the result has no content.
NoReply == [fault |-> "", content |-> <<>>]

\* the task variables when no execute call runs
TasksOff ==
    /\ pc = [t \in Tasks |-> "idle"]
    /\ query = [t \in Tasks |-> ""]
    /\ count = [t \in Tasks |-> None]
    /\ log = [t \in Tasks |-> <<>>]
    /\ result = [t \in Tasks |-> ""]
    /\ ready_at_start = [t \in Tasks |-> FALSE]
    /\ tools_reply = [t \in Tasks |-> <<>>]
    /\ reply = [t \in Tasks |-> NoReply]
    /\ selected = [t \in Tasks |-> None]
    /\ ncalls = [t \in Tasks |-> 0]

\* tool = WebSearchTool(); tool._input_schema = {...}, as the tests do
InitArgs ==
    /\ init_api_key = None
    /\ env_api_key = "mock-api-key-for-testing"
    /\ session_initialized = FALSE
    /\ available_tools = EmptyODict
    /\ search_tool_name = None
    /\ input_schema \in Schemas
    /\ max_results \in MaxResultsValues
    /\ TasksOff
    /\ b_query \in Queries
    /\ b_count \in Counts
    /\ b_pc = "call"
    /\ arguments = EmptyDict
    /\ FetchOff
    /\ StripOff

\* arguments = tool._build_arguments(query, count)
CallBuildArguments ==
    /\ b_pc = "call"
    /\ arguments' = BuildArguments(input_schema, b_query, b_count, max_results)
    /\ b_pc' = "done"
    /\ UNCHANGED <<toolVars, env_api_key, taskVars, fetchVars, stripVars, b_query, b_count>>

NextArgs == CallBuildArguments

SpecArgs == InitArgs /\ [][NextArgs]_vars

---------------------------------------------------------------------------
(* The MCP session of WebSearchTool: requests and their outcomes *)

\* api_key that looks at the constructor argument only
ApiKey_ConstructorOnly(init, env) == IF Truthy(init) THEN init.s ELSE ""

\* api_key: self._init_api_key or os.environ.get("DASHSCOPE_API_KEY", "")
ApiKey(init, env) == PyOr(init, PyStr(env)).s

Pending == [kind |-> "pending", status |-> 0]

\* a JSON-RPC request as posted: its method, its id (None for a notification),
\* the bearer token of its Authorization header, and for tools/call the
\* params name and arguments; outcome is filled in when the await returns
Request(method, id, auth, name, args) ==
    [method |-> method, id |-> id, auth |-> auth, name |-> name,
     arguments |-> args, outcome |-> Pending]

InitializeRequest(key) == Request("initialize", PyInt(1), key, None, EmptyDict)
NotifyRequest(key) == Request("notifications/initialized", None, key, None, EmptyDict)
ListRequest(key) == Request("tools/list", PyInt(2), key, None, EmptyDict)
CallRequest(key, name, args) == Request("tools/call", PyInt(3), key, name, args)

HandshakeMethods == {"initialize", "notifications/initialized", "tools/list"}

\* How an awaited client.post(...) ends: a response with a status code, or an
\* httpx.RequestError (connection error, timeout).
Statuses == {200, 500}
Outcomes ==
    {[kind |-> "response", status |-> st] : st \in Statuses}
        \cup {[kind |-> "error", status |-> 0]}

\* str(e) of the httpx.RequestError
RequestErrorText == "connection failed"

\* response.raise_for_status() raises httpx.HTTPStatusError
RaiseForStatus_Never(o) == FALSE
RaiseForStatus(o) == o.kind = "response" /\ ~(o.status >= 200 /\ o.status < 300)

\* the call's last request, with its outcome
Answered(lg, o) == [lg EXCEPT ![Len(lg)].outcome = o]

---------------------------------------------------------------------------
(* _ensure_session_initialized, lines 136-160: the tools of the reply *)
(* A tool of result.tools is [name |-> the "name" entry, None when the     *)
(* entry is missing; inputSchema |-> <<schema>>, <<>> when it is missing]. *)

\* selected_tool.get("inputSchema", {})
SchemaOf(tool) == IF tool.inputSchema = <<>> THEN EmptySchema ELSE tool.inputSchema[1]

\* "search" in name.lower() or "web" in name.lower()
IsSearchName(name) ==
    LET lower == Lower(name) IN Contains(lower, "search") \/ Contains(lower, "web")

\* lines 142-147, one turn of the loop; st.raised: an earlier turn raised.
\* name.lower() raises AttributeError when the entry has no name, after the
\* tool was stored under the key None.
StoreTool(st, tool) ==
    IF st.raised THEN st
    ELSE LET stored == ODictSet(st.tools, tool.name, tool)
         IN  IF tool.name.t # "str"
             THEN [tools |-> stored, name |-> st.name, raised |-> TRUE]
             ELSE IF IsSearchName(tool.name.s)
             THEN [tools |-> stored, name |-> tool.name, raised |-> FALSE]
             ELSE [tools |-> stored, name |-> st.name, raised |-> FALSE]

RECURSIVE StoreTools(_, _)
StoreTools(st, list) ==
    IF list = <<>> THEN st ELSE StoreTools(StoreTool(st, Head(list)), Tail(list))

\* lines 149-151: not self._search_tool_name and self._available_tools
PickFallback(name, tools) ==
    IF ~Truthy(name) /\ Len(tools.keys) > 0 THEN tools.keys[1] ELSE name

\* lines 136-160 on the instance fields (tools, name, schema) and the reply's
\* tool list: the fields afterwards, whether the session became ready, and
\* the message of the exception raised otherwise
DiscoverTools(tools, name, schema, list) ==
    LET st == StoreTools([tools |-> tools, name |-> name, raised |-> FALSE], list)
        picked == PickFallback(st.name, st.tools)
    IN  IF st.raised
        THEN [tools |-> st.tools, name |-> st.name, schema |-> schema, ready |-> FALSE,
              error |-> "'NoneType' object has no attribute 'lower'"]
        ELSE IF ~Truthy(picked)
        THEN [tools |-> st.tools, name |-> picked, schema |-> schema, ready |-> FALSE,
              error |-> "No web search tool found in the available tools"]
        ELSE [tools |-> st.tools, name |-> picked, schema |-> SchemaOf(st.tools.val[picked]),
              ready |-> TRUE, error |-> ""]

\* line 86: if self._session_initialized: return
NeedsHandshake_Never(initialized) == FALSE
NeedsHandshake_Always(initialized) == TRUE
NeedsHandshake(initialized) == ~initialized

---------------------------------------------------------------------------
(* execute, lines 256-294: the reply of tools/call *)
(* result.content is a sequence of blocks [type |-> ..., text |-> the      *)
(* "text" entry, None when missing].                                       *)

Whitespace == {" ", "\n", "\t", "\r"}

\* str.strip()
RECURSIVE LStrip(_)
LStrip(str) ==
    IF Len(str) > 0 /\ SubSeq(str, 1, 1) \in Whitespace
    THEN LStrip(SubSeq(str, 2, Len(str))) ELSE str
RECURSIVE RStrip(_)
RStrip(str) ==
    IF Len(str) > 0 /\ SubSeq(str, Len(str), Len(str)) \in Whitespace
    THEN RStrip(SubSeq(str, 1, Len(str) - 1)) ELSE str
Strip(str) == LStrip(RStrip(str))

\* "\n".join(lines)
RECURSIVE JoinLines(_)
JoinLines(lines) ==
    IF lines = <<>> THEN ""
    ELSE IF Len(lines) = 1 THEN lines[1]
    ELSE lines[1] \o "\n" \o JoinLines(Tail(lines))

PageOne == [title |-> "TLA+", url |-> "https://a.example", snippet |-> "spec"]
PageTwo == [title |-> "TLC", url |-> "https://b.example", snippet |-> "checker"]

TextNoJson == "not json"
TextNoPages == "{\"pages\": []}"
TextOnePage ==
    "{\"pages\": [{\"title\": \"TLA+\", \"url\": \"https://a.example\", \"snippet\": \"spec\"}]}"
TextTwoPages ==
    "{\"pages\": [{\"title\": \"TLA+\", \"url\": \"https://a.example\", \"snippet\": \"spec\"}, "
        \o "{\"title\": \"TLC\", \"url\": \"https://b.example\", \"snippet\": \"checker\"}]}"
TextArray == "[]"
TextNull == "null"

\* json.loads(text_content) on the payloads above: a JSONDecodeError, an
\* object with its "pages" list, or a value of another JSON type
JsonLoads(text) ==
    CASE text = TextNoPages -> [kind |-> "object", pages |-> <<>>]
      [] text = TextOnePage -> [kind |-> "object", pages |-> <<PageOne>>]
      [] text = TextTwoPages -> [kind |-> "object", pages |-> <<PageOne, PageTwo>>]
      [] text = TextArray -> [kind |-> "array", pages |-> <<>>]
      [] text = TextNull -> [kind |-> "null", pages |-> <<>>]
      [] OTHER -> [kind |-> "invalid", pages |-> <<>>]

\* lines 263-267 without the break: the text of the last block of type "text"
FirstTextContent_Last(content) ==
    LET texts == {k \in DOMAIN content : content[k].type = "text"}
    IN  IF texts = {} THEN None
        ELSE content[CHOOSE k \in texts : \A j \in texts : j <= k].text

\* lines 263-267: the text of the first block of type "text"
FirstTextContent(content) ==
    LET IsText(block) == block.type = "text"
        i == FirstIndex({k \in DOMAIN content : IsText(content[k])})
    IN  IF i = 0 THEN None ELSE content[i].text

\* lines 283-290: the lines of the pages, numbered from i
RECURSIVE PageLines(_, _)
PageLines(pages, i) ==
    IF pages = <<>> THEN <<>>
    ELSE <<ToString(i) \o ". " \o pages[1].title,
           "   URL: " \o pages[1].url,
           "   Snippet: " \o pages[1].snippet,
           "">> \o PageLines(Tail(pages), i + 1)

NoResults(q) == "No search results found for query: " \o q

\* lines 259-294 with a handler of line 293 that leaves the payload out
ParseSearchReply_HidesRaw(q, content) ==
    LET text_content == FirstTextContent(content)
    IN  IF ~Truthy(text_content) THEN NoResults(q)
        ELSE IF text_content.t # "str" \/ JsonLoads(text_content.s).kind # "object"
        THEN "Error parsing search results: Could not decode JSON response"
        ELSE IF JsonLoads(text_content.s).pages = <<>> THEN NoResults(q)
        ELSE Strip(JoinLines(<<"Results for: " \o q \o "\n">>
                                 \o PageLines(JsonLoads(text_content.s).pages, 1)))

\* lines 259-294: the string returned for a 2xx reply with these blocks
ParseSearchReply(q, content) ==
    LET text_content == FirstTextContent(content)
    IN  IF ~Truthy(text_content) THEN NoResults(q)
        ELSE IF text_content.t # "str"
        THEN "Error: the JSON object must be str, bytes or bytearray, not int"
        ELSE LET search_results == JsonLoads(text_content.s)
             IN  CASE search_results.kind = "invalid" ->
                        "Error parsing search results: Could not decode JSON response\nRaw response: "
                            \o text_content.s
                   [] search_results.kind = "array" ->
                        "Error: 'list' object has no attribute 'get'"
                   [] search_results.kind = "null" ->
                        "Error: 'NoneType' object has no attribute 'get'"
                   [] OTHER ->
                        IF search_results.pages = <<>> THEN NoResults(q)
                        ELSE Strip(JoinLines(<<"Results for: " \o q \o "\n">>
                                                 \o PageLines(search_results.pages, 1)))

\* str(e) of the exception raised on a reply of that shape: response.json()
\* on a body that is not JSON, .get on a result that is null, block.get on a
\* block that is a string
FaultMessage(fault) ==
    CASE fault = "body is not JSON" -> "Expecting value: line 1 column 1 (char 0)"
      [] fault = "result is null" -> "'NoneType' object has no attribute 'get'"
      [] fault = "block is a string" -> "'str' object has no attribute 'get'"

\* lines 256-301 without the handler of lines 300-301: the exception leaves
\* execute and nothing is returned
ExecuteReply_Propagates(q, rp) ==
    IF rp.fault # "" THEN ""
    ELSE ParseSearchReply(q, rp.content)

\* lines 256-301: the string returned for a 2xx reply to tools/call
ExecuteReply(q, rp) ==
    IF rp.fault # "" THEN "Error: " \o FaultMessage(rp.fault)
    ELSE ParseSearchReply(q, rp.content)

\* the message of lines 90 and 225-226
NoKeyMessage ==
    "DashScope API key not configured. "
        \o "Set DASHSCOPE_API_KEY in your environment variables."
NoKeyError == "Error: " \o NoKeyMessage

\* line 223: if not self.api_key
NoApiKey_Never(key) == FALSE
NoApiKey(key) == ~Truthy(PyStr(key))

---------------------------------------------------------------------------
(* Inputs of the session: what the caller passes and the remote answers *)

MaxCalls == 2

SchemaA == [properties |-> <<"query", "count">>, required |-> <<"query">>]
SchemaB == [properties |-> <<"Search_Query", "pageSize">>, required |-> <<"Search_Query">>]

WebSearchTool == [name |-> PyStr("WebSearch"), inputSchema |-> <<SchemaA>>]
BingTool == [name |-> PyStr("bing_search"), inputSchema |-> <<SchemaB>>]
LookupTool == [name |-> PyStr("lookup"), inputSchema |-> <<>>]
FetchTool == [name |-> PyStr("fetch"), inputSchema |-> <<SchemaB>>]
NamelessTool == [name |-> None, inputSchema |-> <<>>]

\* result.tools of a tools/list reply; a reply without result or tools gives <<>>
ToolLists ==
    {<<>>,
     <<WebSearchTool>>,
     <<FetchTool, LookupTool>>,
     <<LookupTool, BingTool>>,
     <<BingTool, NamelessTool>>}

ImageBlock == [type |-> "image", text |-> None]
TextBlock(txt) == [type |-> "text", text |-> PyStr(txt)]

\* result.content of a tools/call reply; a reply without result or content gives <<>>
Contents ==
    {<<>>,
     <<ImageBlock>>,
     <<TextBlock(TextNoJson)>>,
     <<ImageBlock, TextBlock(TextOnePage)>>,
     <<TextBlock(TextOnePage), TextBlock(TextNoJson)>>}

\* more of them: other payloads, and text blocks whose "text" is missing or
\* is not a string
OddContents ==
    {<<TextBlock(TextNoPages)>>,
     <<TextBlock(TextTwoPages), ImageBlock>>,
     <<TextBlock(TextArray)>>,
     <<TextBlock(TextNull)>>,
     <<TextBlock(TextNoJson), TextBlock(TextOnePage)>>,
     <<[type |-> "text", text |-> None], TextBlock(TextOnePage)>>,
     <<[type |-> "text", text |-> PyInt(7)]>>}

\* the shapes of a tools/list reply that lines 137-138 cannot read, and of
\* a tools/call reply that lines 257-267 cannot read
ListFaults == {"body is not JSON", "result is null"}
CallFaults == {"body is not JSON", "result is null", "block is a string"}

\* the replies of a remote that keeps to the protocol, and all of them
PlainReplies == {[fault |-> "", content |-> c] : c \in Contents}
CallReplies ==
    PlainReplies
        \cup {[fault |-> "", content |-> c] : c \in OddContents}
        \cup {[fault |-> f, content |-> <<>>] : f \in CallFaults}

SessionQueries == {"test query"}
SessionCounts == {PyInt(3)}

---------------------------------------------------------------------------
(* WebSearchTool.execute, one step per stretch between awaits *)

ArgsOff ==
    /\ b_query = ""
    /\ b_count = None
    /\ b_pc = "off"
    /\ arguments = EmptyDict

\* tool = WebSearchTool(api_key, max_results), lines 68-77
Init ==
    /\ init_api_key \in {None, PyStr("custom-api-key")}
    /\ env_api_key \in {"", "mock-api-key-for-testing"}
    /\ max_results = 10
    /\ session_initialized = FALSE
    /\ available_tools = EmptyODict
    /\ search_tool_name = None
    /\ input_schema = EmptySchema
    /\ TasksOff
    /\ ArgsOff
    /\ FetchOff
    /\ StripOff

RECURSIVE SumOver(_, _)
SumOver(f, S) ==
    IF S = {} THEN 0 ELSE LET x == CHOOSE y \in S : TRUE IN f[x] + SumOver(f, S \ {x})

TotalCalls == SumOver(ncalls, Tasks)

\* the call of task t returns str
Return(t, str) ==
    /\ pc' = [pc EXCEPT ![t] = "done"]
    /\ result' = [result EXCEPT ![t] = str]

\* the call of task t posts req, and posts it again
Post_Resend(t, lg, req, at) ==
    /\ log' = [log EXCEPT ![t] = Append(Append(lg, req), req)]
    /\ pc' = [pc EXCEPT ![t] = at]

\* the call of task t posts req and suspends until its outcome
Post(t, lg, req, at) ==
    /\ log' = [log EXCEPT ![t] = Append(lg, req)]
    /\ pc' = [pc EXCEPT ![t] = at]

\* lines 233-253 (with the fields as they are after the handshake)
PostToolsCall(t, lg, name, schema, q, c) ==
    Post(t, lg,
         CallRequest(ApiKey(init_api_key, env_api_key), name,
                     BuildArguments(schema, q, c, max_results)),
         "tools/call")

\* execute(query, count) begins: lines 223-227, then 84-115 or 233-253
ExecuteStart(t, q, c) ==
    /\ pc[t] \in {"idle", "done"}
    /\ TotalCalls < MaxCalls
    /\ ncalls' = [ncalls EXCEPT ![t] = @ + 1]
    /\ query' = [query EXCEPT ![t] = q]
    /\ count' = [count EXCEPT ![t] = c]
    /\ ready_at_start' = [ready_at_start EXCEPT ![t] = session_initialized]
    /\ tools_reply' = [tools_reply EXCEPT ![t] = <<>>]
    /\ reply' = [reply EXCEPT ![t] = NoReply]
    /\ selected' = [selected EXCEPT ![t] = None]
    /\ IF NoApiKey(ApiKey(init_api_key, env_api_key))
       THEN /\ Return(t, NoKeyError)
            /\ log' = [log EXCEPT ![t] = <<>>]
       ELSE IF NeedsHandshake(session_initialized)
       THEN IF ~Truthy(PyStr(ApiKey(init_api_key, env_api_key)))
            THEN \* line 90 raises ValueError, which line 300 catches
                 /\ Return(t, "Error: " \o NoKeyMessage)
                 /\ log' = [log EXCEPT ![t] = <<>>]
            ELSE /\ result' = [result EXCEPT ![t] = ""]
                 /\ Post(t, <<>>, InitializeRequest(ApiKey(init_api_key, env_api_key)),
                         "initialize")
       ELSE /\ result' = [result EXCEPT ![t] = ""]
            /\ PostToolsCall(t, <<>>, search_tool_name, input_schema, q, c)
    /\ UNCHANGED <<toolVars, env_api_key, argVars, fetchVars, stripVars>>

\* what execute returns when a request of the handshake fails: lines 162-165, 300-301
HandshakeError(o) ==
    IF o.kind = "error"
    THEN "Error: Request error during initialization: " \o RequestErrorText
    ELSE "Error: HTTP error " \o ToString(o.status) \o ": Failed to initialize MCP session"

\* the await of line 115 returns or raises; lines 116-124
InitializeReturn(t, o) ==
    /\ pc[t] = "initialize"
    /\ LET lg == Answered(log[t], o)
       IN  IF o.kind = "error" \/ RaiseForStatus(o)
           THEN /\ Return(t, HandshakeError(o))
                /\ log' = [log EXCEPT ![t] = lg]
           ELSE /\ Post(t, lg, NotifyRequest(lg[1].auth), "notify")
                /\ UNCHANGED result
    /\ UNCHANGED <<toolVars, env_api_key, argVars, fetchVars, stripVars, query, count, ready_at_start,
                   tools_reply, reply, selected, ncalls>>

\* the await of line 124 returns or raises; lines 126-133 (its status is not looked at)
NotifyReturn(t, o) ==
    /\ pc[t] = "notify"
    /\ LET lg == Answered(log[t], o)
       IN  IF o.kind = "error"
           THEN /\ Return(t, HandshakeError(o))
                /\ log' = [log EXCEPT ![t] = lg]
           ELSE /\ Post(t, lg, ListRequest(lg[1].auth), "tools/list")
                /\ UNCHANGED result
    /\ UNCHANGED <<toolVars, env_api_key, argVars, fetchVars, stripVars, query, count, ready_at_start,
                   tools_reply, reply, selected, ncalls>>

\* the await of line 133 raises, or line 134 does
ListFails(t, o) ==
    /\ pc[t] = "tools/list"
    /\ o.kind = "error" \/ RaiseForStatus(o)
    /\ Return(t, HandshakeError(o))
    /\ log' = [log EXCEPT ![t] = Answered(log[t], o)]
    /\ UNCHANGED <<toolVars, env_api_key, argVars, fetchVars, stripVars, query, count, ready_at_start,
                   tools_reply, reply, selected, ncalls>>

\* the await of line 133 returns a reply that passes line 134; lines 136-160,
\* then 233-253
ListReturn(t, o, list) ==
    /\ pc[t] = "tools/list"
    /\ ~(o.kind = "error" \/ RaiseForStatus(o))
    /\ LET lg == Answered(log[t], o)
           d == DiscoverTools(available_tools, search_tool_name, input_schema, list)
       IN  /\ available_tools' = d.tools
           /\ search_tool_name' = d.name
           /\ input_schema' = d.schema
           /\ tools_reply' = [tools_reply EXCEPT ![t] = list]
           /\ IF d.ready
              THEN /\ session_initialized' = TRUE
                   /\ selected' = [selected EXCEPT ![t] = d.name]
                   /\ PostToolsCall(t, lg, d.name, d.schema, query[t], count[t])
                   /\ UNCHANGED result
              ELSE /\ UNCHANGED <<session_initialized, selected>>
                   /\ Return(t, "Error: Error initializing MCP session: " \o d.error)
                   /\ log' = [log EXCEPT ![t] = lg]
    /\ UNCHANGED <<init_api_key, max_results, env_api_key, argVars, fetchVars, stripVars, query, count,
                   ready_at_start, reply, ncalls>>

\* the await of line 133 returns a reply that passes line 134 and whose body
\* lines 137-138 cannot read; lines 166-167, then 300-301
ListMalformed(t, o, fault) ==
    /\ pc[t] = "tools/list"
    /\ ~(o.kind = "error" \/ RaiseForStatus(o))
    /\ log' = [log EXCEPT ![t] = Answered(log[t], o)]
    /\ Return(t, "Error: Error initializing MCP session: " \o FaultMessage(fault))
    /\ UNCHANGED <<toolVars, env_api_key, argVars, fetchVars, stripVars, query, count, ready_at_start,
                   tools_reply, reply, selected, ncalls>>

\* the await of line 253 raises, or line 254 does; lines 296-299
CallFails(t, o) ==
    /\ pc[t] = "tools/call"
    /\ o.kind = "error" \/ RaiseForStatus(o)
    /\ log' = [log EXCEPT ![t] = Answered(log[t], o)]
    /\ IF o.kind = "error"
       THEN Return(t, "Request error: " \o RequestErrorText)
       ELSE Return(t, "HTTP error " \o ToString(o.status) \o ": Failed to search the web")
    /\ UNCHANGED <<toolVars, env_api_key, argVars, fetchVars, stripVars, query, count, ready_at_start,
                   tools_reply, reply, selected, ncalls>>

\* the await of line 253 returns a reply that passes line 254; lines 256-301
CallReturn(t, o, rp) ==
    /\ pc[t] = "tools/call"
    /\ ~(o.kind = "error" \/ RaiseForStatus(o))
    /\ log' = [log EXCEPT ![t] = Answered(log[t], o)]
    /\ reply' = [reply EXCEPT ![t] = rp]
    /\ Return(t, ExecuteReply(query[t], rp))
    /\ UNCHANGED <<toolVars, env_api_key, argVars, fetchVars, stripVars, query, count, ready_at_start,
                   tools_reply, selected, ncalls>>

\* the host process sets or clears DASHSCOPE_API_KEY
SetEnv(v) ==
    /\ v # env_api_key
    /\ env_api_key' = v
    /\ UNCHANGED <<toolVars, taskVars, argVars, fetchVars, stripVars>>

Next ==
    \/ \E t \in Tasks, q \in SessionQueries, c \in SessionCounts : ExecuteStart(t, q, c)
    \/ \E t \in Tasks, o \in Outcomes : InitializeReturn(t, o)
    \/ \E t \in Tasks, o \in Outcomes : NotifyReturn(t, o)
    \/ \E t \in Tasks, o \in Outcomes : ListFails(t, o)
    \/ \E t \in Tasks, o \in Outcomes, list \in ToolLists : ListReturn(t, o, list)
    \/ \E t \in Tasks, o \in Outcomes : CallFails(t, o)
    \/ \E t \in Tasks, o \in Outcomes, rp \in PlainReplies : CallReturn(t, o, rp)
    \/ \E v \in {"", "mock-api-key-for-testing"} : SetEnv(v)

Spec == Init /\ [][Next]_vars

\* One call after the other on the instance, against a remote whose replies
\* may have any of the shapes above.
NextReplies ==
    \/ \E q \in SessionQueries, c \in SessionCounts : ExecuteStart("t1", q, c)
    \/ \E o \in Outcomes : InitializeReturn("t1", o)
    \/ \E o \in Outcomes : NotifyReturn("t1", o)
    \/ \E o \in Outcomes : ListFails("t1", o)
    \/ \E o \in Outcomes, list \in ToolLists : ListReturn("t1", o, list)
    \/ \E o \in Outcomes, fault \in ListFaults : ListMalformed("t1", o, fault)
    \/ \E o \in Outcomes : CallFails("t1", o)
    \/ \E o \in Outcomes, rp \in CallReplies : CallReturn("t1", o, rp)
    \/ \E v \in {"", "mock-api-key-for-testing"} : SetEnv(v)

SpecReplies == Init /\ [][NextReplies]_vars

\* the pending request of the call of task t returns or raises: each post is
\* made on httpx.AsyncClient(timeout=30.0), lines 113 and 252
Answers(t) ==
    \/ \E o \in Outcomes : InitializeReturn(t, o)
    \/ \E o \in Outcomes : NotifyReturn(t, o)
    \/ \E o \in Outcomes : ListFails(t, o)
    \/ \E o \in Outcomes, list \in ToolLists : ListReturn(t, o, list)
    \/ \E o \in Outcomes, fault \in ListFaults : ListMalformed(t, o, fault)
    \/ \E o \in Outcomes : CallFails(t, o)
    \/ \E o \in Outcomes, rp \in CallReplies : CallReturn(t, o, rp)

\* The calls of SpecReplies, where no request stays pending forever.
SpecAnswered == SpecReplies /\ WF_vars(Answers("t1"))

---------------------------------------------------------------------------
(* _validate_url, lines 41-51, with urllib.parse.urlparse *)

CharsOf(str) == {SubSeq(str, i, i) : i \in 1..Len(str)}
Letters == CharsOf(LowerCase) \cup CharsOf(UpperCase)
SchemeChars == Letters \cup CharsOf("0123456789+-.")

\* str.find of a character of the set cs: the first index, 0 when there is none
FindAny(str, cs) ==
    IF \E i \in 1..Len(str) : SubSeq(str, i, i) \in cs
    THEN CHOOSE i \in 1..Len(str) :
            /\ SubSeq(str, i, i) \in cs
            /\ \A j \in 1..(i - 1) : SubSeq(str, j, j) \notin cs
    ELSE 0

\* urlparse(url): the scheme (lower-cased, "" when the URL has none) and the
\* netloc (the text between "//" and the next "/", "?" or "#", "" without
\* "//"); ok is FALSE when urlparse raises ValueError (unbalanced brackets).
UrlParse(url) ==
    LET colon == FindAny(url, {":"})
        hasScheme == /\ colon > 1
                     /\ SubSeq(url, 1, 1) \in Letters
                     /\ \A j \in 1..(colon - 1) : SubSeq(url, j, j) \in SchemeChars
        scheme == IF hasScheme THEN Lower(SubSeq(url, 1, colon - 1)) ELSE ""
        rest == IF hasScheme THEN SubSeq(url, colon + 1, Len(url)) ELSE url
        after == SubSeq(rest, 3, Len(rest))
        stop == FindAny(after, {"/", "?", "#"})
        netloc == IF StartsWith(rest, "//")
                  THEN IF stop = 0 THEN after ELSE SubSeq(after, 1, stop - 1)
                  ELSE ""
    IN  [ok |-> (Contains(netloc, "[") <=> Contains(netloc, "]")),
         scheme |-> scheme, netloc |-> netloc]

\* _validate_url(url): (is_valid, error_msg), the netloc looked at first
ValidateUrl_DomainFirst(url) ==
    LET p == UrlParse(url)
    IN  IF ~p.ok THEN [valid |-> FALSE, error |-> "Invalid IPv6 URL"]
        ELSE IF p.netloc = "" THEN [valid |-> FALSE, error |-> "Missing domain"]
        ELSE IF p.scheme \notin {"http", "https"}
        THEN [valid |-> FALSE,
              error |-> "Only http/https allowed, got '"
                            \o (IF p.scheme # "" THEN p.scheme ELSE "none") \o "'"]
        ELSE [valid |-> TRUE, error |-> ""]

\* _validate_url(url): (is_valid, error_msg), without the netloc check
ValidateUrl_NoDomainCheck(url) ==
    LET p == UrlParse(url)
    IN  IF ~p.ok THEN [valid |-> FALSE, error |-> "Invalid IPv6 URL"]
        ELSE IF p.scheme \notin {"http", "https"}
        THEN [valid |-> FALSE,
              error |-> "Only http/https allowed, got '"
                            \o (IF p.scheme # "" THEN p.scheme ELSE "none") \o "'"]
        ELSE [valid |-> TRUE, error |-> ""]

\* _validate_url(url): (is_valid, error_msg)
ValidateUrl(url) ==
    LET p == UrlParse(url)
    IN  IF ~p.ok THEN [valid |-> FALSE, error |-> "Invalid IPv6 URL"]
        ELSE IF p.scheme \notin {"http", "https"}
        THEN [valid |-> FALSE,
              error |-> "Only http/https allowed, got '"
                            \o (IF p.scheme # "" THEN p.scheme ELSE "none") \o "'"]
        ELSE IF p.netloc = "" THEN [valid |-> FALSE, error |-> "Missing domain"]
        ELSE [valid |-> TRUE, error |-> ""]

---------------------------------------------------------------------------
(* WebFetchTool.execute, lines 322-362 *)

\* text[:n]
SlicePrefix(text, n) ==
    IF n >= 0 THEN SubSeq(text, 1, Min2(n, Len(text)))
    ELSE SubSeq(text, 1, Max2(Len(text) + n, 0))

\* lines 355-357: (truncated, text)
Truncate(text, max_chars) ==
    LET truncated == Len(text) > max_chars
    IN  [truncated |-> truncated,
         text |-> IF truncated THEN SlicePrefix(text, max_chars) ELSE text]

Failure_NoUrl(error, url) == [error |-> error]
Failure(error, url) == [error |-> error, url |-> url]

\* lines 355-360
Success(url, finalUrl, status, extractor, text, max_chars) ==
    LET cut == Truncate(text, max_chars)
    IN  [url |-> url, finalUrl |-> finalUrl, status |-> status, extractor |-> extractor,
         truncated |-> cut.truncated, length |-> Len(cut.text), text |-> cut.text]

JsonBody == "{\"a\": [1, 2]}"
HtmlBody == "<html><body><p>Hello <b>web</b></p></body></html>"
DoctypeBody == "<!DOCTYPE html><title>T</title><p>Hi</p>"
PlainBody == "plain text body, longer than the budget"

\* json.dumps(r.json(), indent=2, ensure_ascii=False) on the bodies above;
\* ok is FALSE when r.json() raises
JsonPretty(body) ==
    IF body = JsonBody
    THEN [ok |-> TRUE, text |-> "{\n  \"a\": [\n    1,\n    2\n  ]\n}"]
    ELSE [ok |-> FALSE, text |-> "Expecting value: line 1 column 1 (char 0)"]

\* r.text[:256].lower().startswith(("<!doctype", "<html"))
LooksLikeHtml(body) ==
    LET head == Lower(SlicePrefix(body, 256))
    IN  StartsWith(head, "<!doctype") \/ StartsWith(head, "<html")

\* line 350: the title line before the content
WithTitle(title, content) ==
    IF title # "" THEN "# " \o title \o "\n\n" \o content ELSE content

\* lines 341-353 with the HTML branch tried before the JSON branch
Extract_HtmlFirst(r, doc) ==
    IF Contains(r.ctype, "text/html") \/ LooksLikeHtml(r.body)
    THEN [ok |-> TRUE, text |-> WithTitle(doc.title, doc.content), extractor |-> "readability"]
    ELSE IF Contains(r.ctype, "application/json")
    THEN LET j == JsonPretty(r.body)
         IN  [ok |-> j.ok, text |-> j.text, extractor |-> "json"]
    ELSE [ok |-> TRUE, text |-> r.body, extractor |-> "raw"]

\* lines 341-353 for a response r: doc is what readability's Document gives
\* for r.text, [title |-> doc.title(), content |-> the summary converted by
\* _to_markdown or _strip_tags]; ok is FALSE when the extraction raises
Extract(r, doc) ==
    IF Contains(r.ctype, "application/json")
    THEN LET j == JsonPretty(r.body)
         IN  [ok |-> j.ok, text |-> j.text, extractor |-> "json"]
    ELSE IF Contains(r.ctype, "text/html") \/ LooksLikeHtml(r.body)
    THEN [ok |-> TRUE, text |-> WithTitle(doc.title, doc.content), extractor |-> "readability"]
    ELSE [ok |-> TRUE, text |-> r.body, extractor |-> "raw"]

---------------------------------------------------------------------------
(* Inputs of WebFetchTool.execute *)

Urls ==
    {"http://example.com", "https://example.com/a?b#c", "HTTP://Example.com/",
     "ftp://example.com", "not-a-url", "http:///path", "https://", "file:///etc/passwd",
     "//example.com/x", "http://[::1/x", "javascript:alert(1)", ""}

\* maxChars: int | None
MaxCharsArgs == {None, PyInt(0), PyInt(5), PyInt(100)}

\* WebFetchTool(max_chars), 50000 when not given
MaxCharsValues == {50000, 8}

ExtractModes == {"markdown", "text"}

Responses ==
    [status : {200, 304, 404},
     finalUrl : {"https://example.com/final"},
     ctype : {"application/json", "text/html; charset=utf-8", "text/plain", "",
              "text/html, application/json"},
     body : {JsonBody, HtmlBody, DoctypeBody, PlainBody}]

Documents ==
    [title : {"", "T"}, content : {"Hello web", "Hi", ""}]

\* what client.get raises: a connection error or timeout, too many redirects
GetErrors == {"connection failed", "Exceeded maximum allowed redirects."}

InitFetch ==
    /\ init_api_key = None
    /\ env_api_key = ""
    /\ max_results = 10
    /\ session_initialized = FALSE
    /\ available_tools = EmptyODict
    /\ search_tool_name = None
    /\ input_schema = EmptySchema
    /\ TasksOff
    /\ ArgsOff
    /\ f_max_chars \in MaxCharsValues
    /\ f_url = ""
    /\ f_extractMode = ""
    /\ f_maxChars = None
    /\ f_pc = "idle"
    /\ f_requests = <<>>
    /\ f_response = NoResponse
    /\ f_text = ""
    /\ f_result = Failure("", "")
    /\ StripOff

\* line 325: max_chars = maxChars or self.max_chars
MaxChars(maxChars, self_max_chars) == PyOr(maxChars, PyInt(self_max_chars)).n

\* execute(url, extractMode, maxChars) begins: lines 325-338
FetchStart(url, mode, maxChars) ==
    /\ f_pc = "idle"
    /\ f_url' = url
    /\ f_extractMode' = mode
    /\ f_maxChars' = maxChars
    /\ LET check == ValidateUrl(url)
       IN  IF ~check.valid
           THEN /\ f_result' = Failure("URL validation failed: " \o check.error, url)
                /\ f_pc' = "done"
                /\ UNCHANGED f_requests
           ELSE /\ f_requests' = Append(f_requests, url)
                /\ f_pc' = "get"
                /\ UNCHANGED f_result
    /\ UNCHANGED <<toolVars, env_api_key, taskVars, argVars, stripVars, f_max_chars, f_response, f_text>>

\* the await of line 338 raises, or line 339 does; lines 361-362
FetchFails(error) ==
    /\ f_pc = "get"
    /\ f_result' = Failure(error, f_url)
    /\ f_pc' = "done"
    /\ UNCHANGED <<toolVars, env_api_key, taskVars, argVars, stripVars, f_max_chars, f_url,
                   f_extractMode, f_maxChars, f_requests, f_response, f_text>>

StatusError(r) ==
    (IF r.status >= 400 THEN "Client error '" ELSE "Redirect response '")
        \o ToString(r.status) \o "' for url '" \o r.finalUrl \o "'"

\* the await of line 338 returns r; lines 339-362
FetchReturns(r, doc) ==
    /\ f_pc = "get"
    /\ f_pc' = "done"
    /\ f_response' = r
    /\ IF ~(r.status >= 200 /\ r.status < 300)
       THEN /\ f_result' = Failure(StatusError(r), f_url)
            /\ UNCHANGED f_text
       ELSE LET e == Extract(r, doc)
            IN  IF ~e.ok
                THEN /\ f_result' = Failure(e.text, f_url)
                     /\ UNCHANGED f_text
                ELSE /\ f_text' = e.text
                     /\ f_result' = Success(f_url, r.finalUrl, r.status, e.extractor, e.text,
                                            MaxChars(f_maxChars, f_max_chars))
    /\ UNCHANGED <<toolVars, env_api_key, taskVars, argVars, stripVars, f_max_chars, f_url,
                   f_extractMode, f_maxChars, f_requests>>

NextFetch ==
    \/ \E url \in Urls, mode \in ExtractModes, maxChars \in MaxCharsArgs :
          FetchStart(url, mode, maxChars)
    \/ \E error \in GetErrors : FetchFails(error)
    \/ \E r \in Responses, doc \in Documents : FetchReturns(r, doc)

SpecFetch == InitFetch /\ [][NextFetch]_vars

---------------------------------------------------------------------------
(* _strip_tags, lines 27-32 *)

\* the first index from which k occurs in str, 0 when it does not occur
Find(str, k) ==
    LET hits == {i \in 1..(Len(str) - Len(k) + 1) : SubSeq(str, i, i + Len(k) - 1) = k}
    IN  IF hits = {} THEN 0 ELSE CHOOSE i \in hits : \A j \in hits : i <= j

\* re.sub(r'<open[\s\S]*?</close>', '', text, flags=re.I): every stretch from
\* an opening to the nearest closing after it is removed, leftmost first
RECURSIVE RemoveBlocks(_, _, _)
RemoveBlocks(text, open, close) ==
    LET i == Find(Lower(text), open)
        rest == SubSeq(text, i + Len(open), Len(text))
        j == Find(Lower(rest), close)
    IN  IF i = 0 \/ j = 0 THEN text
        ELSE SubSeq(text, 1, i - 1)
                 \o RemoveBlocks(SubSeq(rest, j + Len(close), Len(rest)), open, close)

\* re.sub(r'<[^>]+>', '', text): a "<", one or more characters other than
\* ">", and the ">" after them
RECURSIVE RemoveTags(_)
RemoveTags(text) ==
    LET i == Find(text, "<")
        rest == SubSeq(text, i + 1, Len(text))
        j == Find(rest, ">")
    IN  IF i = 0 \/ j = 0 THEN text
        ELSE IF j = 1
        THEN SubSeq(text, 1, i + 1) \o RemoveTags(SubSeq(rest, 2, Len(rest)))
        ELSE SubSeq(text, 1, i - 1) \o RemoveTags(SubSeq(rest, j + 1, Len(rest)))

\* the character references of the inputs below; html.unescape knows each of
\* them with and without ";"
Entities == <<[name |-> "lt", char |-> "<"], [name |-> "gt", char |-> ">"],
              [name |-> "amp", char |-> "&"]>>

\* html.unescape(text): one pass from the left; what a reference is
\* replaced by is not looked at again
RECURSIVE Unescape(_)
Unescape(text) ==
    LET i == Find(text, "&")
        rest == SubSeq(text, i + 1, Len(text))
        known == {e \in DOMAIN Entities : StartsWith(rest, Entities[e].name)}
    IN  IF i = 0 THEN text
        ELSE IF known = {} THEN SubSeq(text, 1, i) \o Unescape(rest)
        ELSE LET e == Entities[CHOOSE x \in known : TRUE]
                 after == SubSeq(rest, Len(e.name) + 1, Len(rest))
             IN  SubSeq(text, 1, i - 1) \o e.char
                     \o Unescape(IF StartsWith(after, ";")
                                 THEN SubSeq(after, 2, Len(after)) ELSE after)

\* _strip_tags(text)
StripTags(text) ==
    Strip(Unescape(RemoveTags(RemoveBlocks(RemoveBlocks(text, "<script", "</script>"),
                                           "<style", "</style>"))))

\* the pieces the arguments are made of, and how many of them at most
MaxPieces == 3
Pieces == {"<b>", "&lt;", "&gt;", "&amp;", "lt;", "x", " ", "<script>", "</script>"}

RECURSIVE Concat(_)
Concat(seq) == IF seq = <<>> THEN "" ELSE Head(seq) \o Concat(Tail(seq))

StripInputs == {Concat(seq) : seq \in SeqsUpTo(Pieces, MaxPieces)}

InitStrip ==
    /\ init_api_key = None
    /\ env_api_key = ""
    /\ max_results = 10
    /\ session_initialized = FALSE
    /\ available_tools = EmptyODict
    /\ search_tool_name = None
    /\ input_schema = EmptySchema
    /\ TasksOff
    /\ ArgsOff
    /\ FetchOff
    /\ strip_input \in StripInputs
    /\ strip_out = <<>>
    /\ strip_pc = "call"

\* text = _strip_tags(text)
CallStripTags ==
    /\ strip_pc = "call"
    /\ strip_out' = Append(strip_out,
                           StripTags(IF strip_out = <<>> THEN strip_input
                                     ELSE strip_out[Len(strip_out)]))
    /\ strip_pc' = IF Len(strip_out) = 1 THEN "done" ELSE "call"
    /\ UNCHANGED <<toolVars, env_api_key, taskVars, argVars, fetchVars, strip_input>>

NextStrip == CallStripTags

SpecStrip == InitStrip /\ [][NextStrip]_vars

---------------------------------------------------------------------------
(* Properties of _build_arguments, checked under SpecArgs *)

HasQueryName(seq) == \E i \in 1..Len(seq) : IsQueryName(seq[i])
HasCountName(seq) == \E i \in 1..Len(seq) : IsCountName(seq[i])

\* the first key of schema.properties that contains "query"
FirstQueryProperty == input_schema.properties[FirstIndex({i \in DOMAIN input_schema.properties : IsQueryName(input_schema.properties[i])})]

\* the key the count scan selects: properties first, then required
SelectedCountKey ==
    IF HasCountName(input_schema.properties)
    THEN input_schema.properties[FirstIndex({i \in DOMAIN input_schema.properties : IsCountName(input_schema.properties[i])})]
    ELSE input_schema.required[FirstIndex({i \in DOMAIN input_schema.required : IsCountName(input_schema.required[i])})]

Clamp(x, lo, hi) == IF x < lo THEN lo ELSE IF x > hi THEN hi ELSE x

\* C2: when a key of schema.properties contains "query" (case-insensitively),
\* the returned arguments hold the caller's query under the first such key.
C2_QueryUnderFirstQueryKey ==
    (b_pc = "done" /\ HasQueryName(input_schema.properties))
        => /\ FirstQueryProperty \in DOMAIN arguments
           /\ arguments[FirstQueryProperty] = PyStr(b_query)

\* C3: for every integer count c, the value under the selected count key is
\* clamp(c, 1, 10) when a count-like key exists in properties or required,
\* and the arguments hold no count at all when none exists.
C3_CountIsClamped ==
    (b_pc = "done" /\ b_count.t = "int")
        => IF HasCountName(input_schema.properties) \/ HasCountName(input_schema.required)
           THEN /\ SelectedCountKey \in DOMAIN arguments
                /\ arguments[SelectedCountKey] = PyInt(Clamp(b_count.n, 1, 10))
           ELSE \A k \in DOMAIN arguments : arguments[k].t # "int"

NoQueryLikeName ==
    ~HasQueryName(input_schema.properties) /\ ~HasQueryName(input_schema.required)
NoCountLikeName ==
    ~HasCountName(input_schema.properties) /\ ~HasCountName(input_schema.required)

\* C4: when no key of properties and no entry of required contains "query",
\* the query is stored under the literal key "query"; when no name matches a
\* count keyword either, the arguments are exactly {"query": query}.
C4_FallsBackToQueryKey ==
    (b_pc = "done" /\ NoQueryLikeName)
        => /\ "query" \in DOMAIN arguments
           /\ arguments["query"] = PyStr(b_query)
           /\ NoCountLikeName => arguments = [k \in {"query"} |-> PyStr(b_query)]

\* the schema of test_build_arguments_defaults_to_query_if_not_found, called with count 3
C4_Witness ==
    /\ b_pc = "done"
    /\ input_schema = [properties |-> <<"unknown_field", "another_field">>,
                       required |-> <<"unknown_field">>]
    /\ b_count = PyInt(3)
    /\ arguments = [k \in {"query"} |-> PyStr("test query")]

\* the key the query resolution chooses: the first query-like key of
\* properties, else the first query-like entry of required, else "query"
QueryKey ==
    IF HasQueryName(input_schema.properties) THEN FirstQueryProperty
    ELSE IF HasQueryName(input_schema.required)
    THEN input_schema.required[FirstIndex({i \in DOMAIN input_schema.required :
                                              IsQueryName(input_schema.required[i])})]
    ELSE "query"

\* C19: the two resolutions are independent: the returned arguments hold the
\* caller's query under the key the query resolution chooses, whatever count
\* is passed and whichever key the count scan selects (also when one name,
\* such as "query_limit", is query-like and count-like), and the entry of the
\* count is the same whatever the query is.
C19_ResolutionsIndependent ==
    b_pc = "done" =>
        /\ QueryKey \in DOMAIN arguments
        /\ arguments[QueryKey] = PyStr(b_query)
        /\ \A c \in Counts :
              BuildArguments(input_schema, b_query, c, max_results)[QueryKey] = PyStr(b_query)
        /\ ~NoCountLikeName =>
              \A q \in Queries :
                  LET other == BuildArguments(input_schema, q, b_count, max_results)
                  IN  /\ SelectedCountKey \in DOMAIN other
                      /\ other[SelectedCountKey] = arguments[SelectedCountKey]

---------------------------------------------------------------------------
(* Properties of the session, checked under Spec *)

sessionState == <<session_initialized, available_tools, search_tool_name, input_schema>>

\* this step is the beginning of an execute call of task t
Starts(t) == ncalls'[t] = ncalls[t] + 1

\* this step is taken by the call of task t
StepBy(t) == <<pc[t], log[t], result[t], ncalls[t]>>' # <<pc[t], log[t], result[t], ncalls[t]>>

Methods(lg) == {lg[i].method : i \in DOMAIN lg}

\* the outcome of the last request of the log lg
LastOutcome(lg) == lg[Len(lg)].outcome

\* C1: an execute call that begins with no credential (no constructor key and
\* DASHSCOPE_API_KEY unset or empty) returns a string containing "DashScope API
\* key not configured", sends no request, and leaves the session state unchanged.
C1_NoKeyNoRequest ==
    [][\A t \in Tasks :
         (Starts(t) /\ ~Truthy(init_api_key) /\ env_api_key = "")
             => /\ pc'[t] = "done"
                /\ Contains(result'[t], "DashScope API key not configured")
                /\ log'[t] = <<>>
                /\ \A u \in Tasks \ {t} : log'[u] = log[u]
                /\ sessionState' = sessionState]_vars

\* a call made without a credential on a session that is already ready
C1_Witness ==
    \E t \in Tasks :
        /\ pc[t] = "done"
        /\ result[t] = NoKeyError
        /\ log[t] = <<>>
        /\ ready_at_start[t]
        /\ ApiKey(init_api_key, env_api_key) = ""

\* a connection error or a non-2xx status
Failed(o) == o.kind = "error" \/ (o.kind = "response" /\ ~(o.status >= 200 /\ o.status < 300))

\* a handshake request whose failure ends the handshake: any failure of
\* initialize and tools/list, a connection error of the notification
Aborting(req) ==
    /\ req.method \in HandshakeMethods
    /\ IF req.method = "notifications/initialized"
       THEN req.outcome.kind = "error"
       ELSE Failed(req.outcome)

AnyHandshakeFailure(req) == req.method \in HandshakeMethods /\ Failed(req.outcome)

\* the state part of C8, for any failure of a handshake request or for the
\* aborting ones only: the failed request is the last one the call sent, and
\* the call returned an error string
StopsAt(any) ==
    \A t \in Tasks : \A i \in DOMAIN log[t] :
        (IF any THEN AnyHandshakeFailure(log[t][i]) ELSE Aborting(log[t][i]))
            => /\ i = Len(log[t])
               /\ pc[t] = "done"
               /\ StartsWith(result[t], "Error: ")

\* C8 as stated: a connection error or a non-2xx status of any handshake
\* request (initialize, the notification, tools/list) stops the handshake
\* there, and execute returns an error string.
C8_AnyFailureAborts == StopsAt(TRUE)

\* C8 as amended: a connection error or a non-2xx status of initialize or
\* tools/list, or a connection error of the notification, stops the handshake
\* there (no later request by that call), execute returns an error string,
\* the step leaves the session fields as they were (not marked ready), and a
\* call that begins with a credential while the session is not ready starts
\* with initialize.  A non-2xx status of the notification is not looked at.
C8_TransportFailureAborts ==
    /\ []StopsAt(FALSE)
    /\ [][\A t \in Tasks :
            /\ (StepBy(t) /\ log'[t] # <<>> /\ Aborting(log'[t][Len(log'[t])]))
                  => sessionState' = sessionState
            /\ (Starts(t) /\ ~session_initialized /\ ApiKey(init_api_key, env_api_key) # "")
                  => /\ pc'[t] = "initialize"
                     /\ Methods(log'[t]) = {"initialize"}]_vars

\* the notification was answered 500 and ignored, then tools/list failed
C8_Witness ==
    \E t \in Tasks :
        /\ pc[t] = "done"
        /\ Len(log[t]) = 3
        /\ log[t][2].outcome = [kind |-> "response", status |-> 500]
        /\ log[t][3].outcome.kind = "error"
        /\ ncalls[t] = 2
        /\ ~session_initialized

\* C9: once _session_initialized is true it stays true; a call that begins
\* while the session is ready sends no initialize, notifications/initialized
\* or tools/list, and its steps leave the selected operation and the cached
\* schema unchanged.
C9_ReadyIsFinal ==
    /\ [][session_initialized => session_initialized']_vars
    /\ [](\A t \in Tasks :
            (pc[t] # "idle" /\ ready_at_start[t]) => Methods(log[t]) \cap HandshakeMethods = {})
    /\ [][\A t \in Tasks :
            (StepBy(t) /\ ready_at_start'[t])
                => <<search_tool_name, input_schema>>' = <<search_tool_name, input_schema>>]_vars

\* a call that began on a ready session and whose tools/call failed
C9_Witness ==
    \E t \in Tasks :
        /\ ready_at_start[t]
        /\ pc[t] = "done"
        /\ Methods(log[t]) = {"tools/call"}
        /\ Failed(log[t][1].outcome)
        /\ session_initialized

\* the tools/list reply of the call of task t was received and passed line 134
GotToolList(t) == Len(log[t]) >= 3 /\ log[t][3].outcome.kind = "response" /\ ~Failed(log[t][3].outcome)

\* the names of the reply's operations that contain "search" or "web"
MatchingNames(list) ==
    {list[i].name : i \in {j \in DOMAIN list : list[j].name.t = "str" /\ IsSearchName(list[j].name.s)}}

\* the handshake of the call of task t ended with the session marked ready
HandshakeSucceeded(t) == GotToolList(t) /\ Len(log[t]) = 4

\* C10: at the end of a successful handshake the selected operation is one of
\* the reply's operations whose name contains "search" or "web" when there is
\* one, and the first operation of the reply when there is none; a reply
\* with zero operations makes the handshake fail.
C10_SelectedFromReply ==
    \A t \in Tasks :
        GotToolList(t) =>
            /\ (HandshakeSucceeded(t) /\ MatchingNames(tools_reply[t]) # {})
                  => selected[t] \in MatchingNames(tools_reply[t])
            /\ (HandshakeSucceeded(t) /\ MatchingNames(tools_reply[t]) = {}
                    /\ tools_reply[t] # <<>>)
                  => selected[t] = tools_reply[t][1].name
            /\ tools_reply[t] = <<>> => (~HandshakeSucceeded(t) /\ pc[t] = "done")

\* the credential in this state: the constructor argument when it is a
\* non-empty string, the environment variable otherwise
Credential ==
    IF init_api_key.t = "str" /\ init_api_key.s # "" THEN init_api_key.s ELSE env_api_key

\* this step of task t sends a request
Sends(t) == Len(log'[t]) > 0 /\ LastOutcome(log'[t]) = Pending /\ log'[t] # log[t]

\* C16: every read of api_key gives the constructor argument when it is
\* non-empty and the current DASHSCOPE_API_KEY otherwise: a call that begins
\* returns the no-key error exactly when that credential is empty, the first
\* request of a call and every tools/call carry the credential of the state
\* they are sent in, and the later requests of a handshake carry the header
\* built for its first one.  A change of the variable between two calls is
\* seen by the second.
C16_KeyResolvedPerCall ==
    [][\A t \in Tasks :
         /\ Starts(t) =>
               /\ Credential = "" <=> (pc'[t] = "done" /\ result'[t] = NoKeyError)
               /\ Credential # "" => (Sends(t) /\ log'[t][1].auth = Credential)
         /\ (Sends(t) /\ log'[t][Len(log'[t])].method = "tools/call")
               => log'[t][Len(log'[t])].auth = Credential
         /\ Sends(t) => \/ log'[t][Len(log'[t])].method = "tools/call"
                        \/ log'[t][Len(log'[t])].auth = log'[t][1].auth]_vars

\* a call without a credential returned the error, the variable was set, and
\* the next call sent its first request with the new value
C16_Witness ==
    \E t, u \in Tasks :
        /\ init_api_key = None
        /\ pc[u] = "done" /\ result[u] = NoKeyError
        /\ ncalls[t] = 1 /\ ncalls[u] = 1
        /\ pc[t] = "initialize"
        /\ log[t][1].auth = "mock-api-key-for-testing"

\* So far the remote has answered every request with success, and every
\* tools/list with the list; no task has called twice.
FixedRemote(list) ==
    \A t \in Tasks :
        /\ ncalls[t] <= 1
        /\ \A i \in DOMAIN log[t] : ~Failed(log[t][i].outcome)
        /\ GotToolList(t) => tools_reply[t] = list

\* what one handshake with that list makes of a new instance
SingleHandshake(list) == DiscoverTools(EmptyODict, None, EmptySchema, list)

\* C17: when the calls started on one instance meet a remote whose requests
\* succeed and whose tools/list reply is fixed, then however their steps
\* interleave the session state after any of the handshakes is the state one
\* handshake produces, and every tools/call names the operation that
\* handshake selects, with arguments built from its schema.
C17_RedundantHandshakesHarmless ==
    \A list \in ToolLists :
        FixedRemote(list) =>
            LET d == SingleHandshake(list)
            IN  /\ (\E t \in Tasks : GotToolList(t))
                      => sessionState = <<d.ready, d.tools, d.name, d.schema>>
                /\ \A t \in Tasks : \A i \in DOMAIN log[t] :
                      log[t][i].method = "tools/call"
                          => /\ log[t][i].name = d.name
                             /\ log[t][i].arguments
                                    = BuildArguments(d.schema, query[t], count[t], max_results)

\* both calls went through the whole handshake, on a list of two tools
C17_Witness ==
    /\ \A t \in Tasks : HandshakeSucceeded(t) /\ ~ready_at_start[t] /\ ncalls[t] = 1
    /\ \E list \in ToolLists : Len(list) = 2 /\ FixedRemote(list)
    /\ session_initialized

Ok(o) == o.kind = "response" /\ o.status >= 200 /\ o.status < 300

\* the requests of lg are a handshake in order: initialize answered 2xx, the
\* notification answered, tools/list answered 2xx, and then tools/call
HandshakeThenCall(lg) ==
    /\ Len(lg) = 4
    /\ lg[1].method = "initialize" /\ Ok(lg[1].outcome)
    /\ lg[2].method = "notifications/initialized" /\ lg[2].outcome.kind = "response"
    /\ lg[3].method = "tools/list" /\ Ok(lg[3].outcome)
    /\ lg[4].method = "tools/call"

\* the methods of lg, in the order sent
MethodsInOrder(lg) == [i \in DOMAIN lg |-> lg[i].method]

\* C18: a tools/call is sent only when the session is ready, that is after a
\* handshake on the instance in which initialize was sent and answered 2xx,
\* then the notification was sent, then tools/list was sent and answered
\* 2xx; a call sends no request before its previous one has returned, and
\* the notification is the only request without an id.
C18_ProtocolOrder ==
    /\ [][\A t \in Tasks :
            (Sends(t) /\ log'[t][Len(log'[t])].method = "tools/call") => session_initialized']_vars
    /\ [][(~session_initialized /\ session_initialized')
              => \E t \in Tasks : StepBy(t) /\ HandshakeThenCall(log'[t])]_vars
    /\ [](\A t \in Tasks :
            /\ "tools/call" \in Methods(log[t])
                  => /\ session_initialized
                     /\ \/ HandshakeThenCall(log[t])
                        \/ ready_at_start[t] /\ MethodsInOrder(log[t]) = <<"tools/call">>
            /\ \/ MethodsInOrder(log[t]) = <<"tools/call">>
               \/ \E n \in 0..4 :
                     MethodsInOrder(log[t])
                         = SubSeq(<<"initialize", "notifications/initialized", "tools/list",
                                    "tools/call">>, 1, n)
            /\ \A i \in DOMAIN log[t] :
                  /\ i < Len(log[t]) => log[t][i].outcome # Pending
                  /\ log[t][i].id = None <=> log[t][i].method = "notifications/initialized")

\* one call sent tools/call at the end of its handshake, whose notification
\* was answered 500, and the other sent it at once on the ready session
C18_Witness ==
    \E t, u \in Tasks :
        /\ HandshakeThenCall(log[t])
        /\ log[t][2].outcome.status = 500
        /\ ready_at_start[u]
        /\ MethodsInOrder(log[u]) = <<"tools/call">>
        /\ LastOutcome(log[u]) = Pending

\* C21: whenever the session is ready, the selected operation name is not
\* None, is a key of the discovered operations, and the cached input schema
\* is the inputSchema of the descriptor stored under that name (the empty
\* schema when the descriptor has none).
C21_ReadySessionConsistent ==
    session_initialized =>
        /\ search_tool_name # None
        /\ \E k \in DOMAIN available_tools.keys : available_tools.keys[k] = search_tool_name
        /\ input_schema = SchemaOf(available_tools.val[search_tool_name])

\* this step ends the handshake of the call of task t with an exception
HandshakeRaises(t) ==
    pc[t] \in {"initialize", "notify", "tools/list"} /\ pc'[t] = "done"

\* C22: a handshake that raises leaves _available_tools, _search_tool_name,
\* _input_schema and _session_initialized as they were before the attempt.
C22_FailedHandshakeFrame ==
    [][\A t \in Tasks : HandshakeRaises(t) => sessionState' = sessionState]_vars

---------------------------------------------------------------------------
(* Properties of the session when every request is answered, checked under *)
(* SpecAnswered                                                            *)

\* where a call waits for a request
Awaits == {"initialize", "notify", "tools/list", "tools/call"}

\* the requests of lg that the call took as failed: a connection error, or
\* a status outside 2xx on a request whose status is checked
TakenAsFailed(lg) ==
    {i \in DOMAIN lg :
        \/ lg[i].outcome.kind = "error"
        \/ lg[i].method # "notifications/initialized" /\ RaiseForStatus(lg[i].outcome)}

\* C23: one execute call sends at most four requests, at most one each of
\* initialize, notifications/initialized, tools/list and tools/call; a
\* request that failed is the last one of its call; and a call that waits
\* for a request returns a string in the end.
C23_BoundedWork ==
    /\ [](\A t \in Tasks :
            /\ Len(log[t]) <= 4
            /\ Methods(log[t]) \subseteq HandshakeMethods \cup {"tools/call"}
            /\ \A i, j \in DOMAIN log[t] : log[t][i].method = log[t][j].method => i = j
            /\ \A i \in TakenAsFailed(log[t]) : i = Len(log[t]))
    /\ \A t \in Tasks : (pc[t] \in Awaits) ~> (pc[t] = "done" /\ Len(result[t]) > 0)

\* a call sent its four requests, the last of which failed, and returned
C23_Witness ==
    \E t \in Tasks :
        /\ pc[t] = "done"
        /\ Len(log[t]) = 4
        /\ TakenAsFailed(log[t]) = {4}
        /\ Len(result[t]) > 0

---------------------------------------------------------------------------
(* Properties of WebFetchTool.execute, checked under SpecFetch *)

\* the call returned the success object
Fetched == f_pc = "done" /\ DOMAIN f_result = {"url", "finalUrl", "status", "extractor",
                                               "truncated", "length", "text"}

\* the call returned the failure object
FetchFailed == f_pc = "done" /\ DOMAIN f_result = {"error", "url"}

\* the budget of the call: the per-call maxChars when the caller supplied
\* one, the instance's max_chars otherwise
Budget == IF f_maxChars # None THEN f_maxChars.n ELSE f_max_chars

\* C5: after a successful fetch the returned text is no longer than the
\* budget, truncated is true exactly when the extracted text was longer than
\* the budget, a truncated text is the first budget characters of the
\* extracted text, and length is the length of the returned text.
C5_TextWithinBudget ==
    Fetched =>
        /\ Len(f_result.text) <= Budget
        /\ f_result.truncated <=> (Len(f_text) > Budget)
        /\ f_result.truncated => f_result.text = SubSeq(f_text, 1, Budget)
        /\ f_result.length = Len(f_result.text)

\* the URL has a scheme other than http and https, or no host, or cannot be
\* split at all; the scheme is compared as urlparse gives it, in lower case
Unacceptable(url) ==
    LET p == UrlParse(url)
    IN  ~p.ok \/ p.scheme \notin {"http", "https"} \/ p.netloc = ""

\* C6: a call for a URL whose scheme is not http or https, or whose host is
\* empty, returns the failure object with the requested URL and issues no
\* HTTP request; every request issued is for a URL that passes both checks.
C6_UnacceptableUrlNoRequest ==
    /\ (f_pc # "idle" /\ Unacceptable(f_url))
          => /\ FetchFailed
             /\ f_result.url = f_url
             /\ f_requests = <<>>
    /\ \A i \in DOMAIN f_requests : ~Unacceptable(f_requests[i])

\* a call for an http or https URL without a host was refused
C6_Witness ==
    /\ FetchFailed
    /\ f_requests = <<>>
    /\ UrlParse(f_url).ok
    /\ UrlParse(f_url).scheme \in {"http", "https"}
    /\ UrlParse(f_url).netloc = ""

SchemeError(scheme) ==
    "URL validation failed: Only http/https allowed, got '" \o scheme \o "'"

DomainError == "URL validation failed: Missing domain"

\* C7: "ftp://example.com" is rejected with the scheme error and
\* "not-a-url" is rejected with the missing-domain error.
C7_ErrorKinds ==
    /\ (f_pc # "idle" /\ f_url = "ftp://example.com")
          => (FetchFailed /\ f_result.error = SchemeError("ftp"))
    /\ (f_pc # "idle" /\ f_url = "not-a-url")
          => (FetchFailed /\ f_result.error = DomainError)

\* C7, as the code has it: the scheme is checked before the host, so a URL
\* whose scheme is not http or https is rejected with the scheme error, which
\* names the scheme or 'none' when the URL has none ("ftp://example.com",
\* "not-a-url"), and the missing-domain error is kept for http and https URLs
\* without a host.
C7_SchemeErrorFirst ==
    \A url \in Urls :
        (f_pc # "idle" /\ f_url = url /\ UrlParse(url).ok) =>
            LET p == UrlParse(url)
            IN  /\ p.scheme \notin {"", "http", "https"}
                      => (FetchFailed /\ f_result.error = SchemeError(p.scheme))
                /\ p.scheme = ""
                      => (FetchFailed /\ f_result.error = SchemeError("none"))
                /\ (p.scheme \in {"http", "https"} /\ p.netloc = "")
                      => (FetchFailed /\ f_result.error = DomainError)

\* "not-a-url" was rejected, with the scheme error
C7_Witness ==
    /\ FetchFailed
    /\ f_url = "not-a-url"
    /\ f_result.error = SchemeError("none")

\* the extraction of lines 341-353 raised on the response received
ExtractionFailed ==
    Contains(f_response.ctype, "application/json") /\ ~JsonPretty(f_response.body).ok

\* C12: a call returns the success object with exactly url, finalUrl, status,
\* extractor, truncated, length and text, or the failure object with exactly
\* error and url; a failure of the validation, of the retrieval (connection
\* error, timeout, too many redirects, non-2xx final status) or of the
\* extraction gives the failure object with the requested URL, and a non-2xx
\* final status never gives the success object.
C12_ResultShape ==
    f_pc = "done" =>
        /\ Fetched \/ FetchFailed
        /\ f_result.url = f_url
        /\ (\/ Unacceptable(f_url)
            \/ f_response = NoResponse
            \/ ~(f_response.status >= 200 /\ f_response.status < 300)
            \/ ExtractionFailed) => FetchFailed
        /\ Fetched => /\ f_response.status >= 200 /\ f_response.status < 300
                      /\ f_result.status = f_response.status

\* a final status of 404 gave the failure object
C12_Witness ==
    /\ FetchFailed
    /\ f_response.status = 404
    /\ f_result.url = f_url
    /\ f_requests = <<f_url>>

\* the content-type of the response received names JSON
JsonType == Contains(f_response.ctype, "application/json")

\* the content-type names HTML, or the body begins with an HTML marker
HtmlMarked ==
    LET head == Lower(SubSeq(f_response.body, 1, Min2(256, Len(f_response.body))))
    IN  \/ Contains(f_response.ctype, "text/html")
        \/ StartsWith(head, "<!doctype")
        \/ StartsWith(head, "<html")

\* C14: after a successful fetch the extractor tag is "json" exactly when
\* the content-type contains "application/json", whatever else it contains
\* and however the body begins; otherwise "readability" exactly when the
\* content-type contains "text/html" or the lower-cased first 256 characters
\* of the body start with "<!doctype" or "<html"; otherwise "raw", and then
\* the text before truncation is the body as received.
C14_DispatchInOrder ==
    Fetched =>
        /\ f_result.extractor \in {"json", "readability", "raw"}
        /\ f_result.extractor = "json" <=> JsonType
        /\ f_result.extractor = "readability" <=> (~JsonType /\ HtmlMarked)
        /\ f_result.extractor = "raw" <=> (~JsonType /\ ~HtmlMarked)
        /\ f_result.extractor = "raw" => f_text = f_response.body

\* a JSON response whose content-type names HTML too
C14_Witness ==
    /\ Fetched
    /\ f_result.extractor = "json"
    /\ Contains(f_response.ctype, "text/html")

---------------------------------------------------------------------------
(* Properties of one call's replies, checked under SpecReplies *)

\* C11: execute never propagates a fault: however a request of the call ends
\* (connection error, non-2xx status, a reply without result, a null result,
\* content blocks and text payloads of any shape) the call goes on to its
\* next request or returns a string (result is "" as long as the call has
\* returned nothing).
C11_AlwaysReturnsString ==
    /\ [](\A t \in Tasks : pc[t] = "done" => Len(result[t]) > 0)
    /\ [][\A t \in Tasks :
            (pc[t] \in Awaits /\ StepBy(t))
                => \/ pc'[t] \in Awaits /\ LastOutcome(log'[t]) = Pending
                   \/ pc'[t] = "done" /\ LastOutcome(log'[t]) \in Outcomes]_vars

\* a reply whose result is null was turned into an error string
C11_Witness ==
    /\ pc["t1"] = "done"
    /\ reply["t1"].fault = "result is null"
    /\ result["t1"] = "Error: 'NoneType' object has no attribute 'get'"

\* the call of task t returned after a tools/call reply that lines 257-267 could read
Replied(t) ==
    /\ pc[t] = "done"
    /\ log[t] # <<>>
    /\ log[t][Len(log[t])].method = "tools/call"
    /\ ~Failed(LastOutcome(log[t]))
    /\ reply[t].fault = ""

\* the payload of the reply of task t: the text of its first text block
Payload(t) == FirstTextContent(reply[t].content)

\* the payload is there and is a string
HasPayload(t) == Replied(t) /\ Truthy(Payload(t)) /\ Payload(t).t = "str"

IsParseError(str, raw) ==
    Contains(str, "Error parsing search results") /\ Contains(str, raw)
IsNoResults(str, q) == str = "No search results found for query: " \o q
IsResults(str, q) == StartsWith(str, "Results for: " \o q)

\* C13: when the payload of the first text block cannot be parsed (it is not
\* valid JSON) the returned string contains a parse-error message and the
\* payload unchanged; a parsed payload with an empty pages list gives "No
\* search results found for query: <query>", a parsed payload with pages
\* gives a string headed "Results for: <query>"; and each of these strings
\* has one of the three forms only.
C13_ParseOutcomes ==
    \A t \in Tasks :
        HasPayload(t) =>
            LET parsed == JsonLoads(Payload(t).s)
                raw == Payload(t).s
                forms == <<IsParseError(result[t], raw), IsNoResults(result[t], query[t]),
                           IsResults(result[t], query[t])>>
            IN  /\ parsed.kind = "invalid" => forms = <<TRUE, FALSE, FALSE>>
                /\ (parsed.kind = "object" /\ parsed.pages = <<>>) => forms = <<FALSE, TRUE, FALSE>>
                /\ (parsed.kind = "object" /\ parsed.pages # <<>>) => forms = <<FALSE, FALSE, TRUE>>

\* a payload that is not JSON came back inside the parse-error string
C13_Witness ==
    /\ HasPayload("t1")
    /\ Payload("t1").s = TextNoJson
    /\ result["t1"] = "Error parsing search results: Could not decode JSON response\n"
                          \o "Raw response: not json"

\* the positions of the blocks of type "text" in the reply of task t
TextBlocks(t) == {k \in DOMAIN reply[t].content : reply[t].content[k].type = "text"}

\* C20: the string returned is determined by the first block of type "text"
\* alone: a reply without such a block gives the no-results message, and a
\* reply with one gives what the reply made of that block alone would give,
\* whatever blocks come before and after it.
C20_FirstTextBlockOnly ==
    \A t \in Tasks :
        Replied(t) =>
            IF TextBlocks(t) = {}
            THEN IsNoResults(result[t], query[t])
            ELSE LET first == CHOOSE k \in TextBlocks(t) : \A j \in TextBlocks(t) : k <= j
                 IN  result[t] = ParseSearchReply(query[t], <<reply[t].content[first]>>)

\* a reply with two text blocks: the page of the first one was returned
C20_Witness ==
    /\ Replied("t1")
    /\ reply["t1"].content = <<TextBlock(TextOnePage), TextBlock(TextNoJson)>>
    /\ IsResults(result["t1"], query["t1"])
    /\ Contains(result["t1"], "1. TLA+")

---------------------------------------------------------------------------
(* Properties of _strip_tags, checked under SpecStrip *)

\* C15: _strip_tags is idempotent: for every string s, also one with
\* character references such as &lt; and &gt; in it,
\* _strip_tags(_strip_tags(s)) = _strip_tags(s).
C15_StripTagsIdempotent ==
    strip_pc = "done" => strip_out[2] = strip_out[1]

=============================================================================
